---- MODULE Spec2Model ----
(***************************************************************************)
(* Linear-interpolation observation generation of sims_movingObjects:      *)
(* LinearObs (linearObs.py), PyOrbEphemerides (ephemerides.py) and the     *)
(* runLinearObs driver, as one state machine.                              *)
(*                                                                         *)
(* Units.  Times are whole days (MJD offsets); timeStep/2.0 is kept exact  *)
(* by doubling where the code halves.  Angles are counted in units of      *)
(* 0.05 degree, so cameraFov = 2.1 deg is 42 and the default rFov = 1.75   *)
(* deg is 35.  A visit's fieldRA is stored in "radian" units of which one  *)
(* is DegPerRad angle units, so np.degrees multiplies by DegPerRad.        *)
(* Objects and pointings lie on the equator (dec = 0), where the great-    *)
(* circle separation is the absolute RA difference.                        *)
(***************************************************************************)
EXTENDS Integers, Sequences, FiniteSets, TLC

\* ------------------------------------------------------------------ bounds
MaxTime == 2
MaxStep == 3
MaxVisits == 2
MaxObjs == 2

\* The most _calcColors calls made on one instance directly.
MaxCalls == 3
MaxRawObjs == 2
MaxRawTimes == 2
MaxSpan == 3

\* ------------------------------------------------------- program constants
CameraFov == 42
RFovDefault == 35
DegPerRad == 7
TimescaleTAI == 4

Unset == "unset"
NoError == "none"

FilterList == <<"u", "g", "r", "i", "z", "y">>

\* ------------------------------------------------------------ input domains
VisitTimes == 0..MaxTime
TimeSteps == (0 - 1)..MaxStep
RFovs == {1, RFovDefault}
SedNames == {"C.dat", "S.dat", "D.dat"}
FileNames == {"out.txt", "other.txt"}
ErrCodes == {0, 1}
SedData == {1, 2}
Throughputs == {"ok", "unset", "unreadable"}

SeqsUpTo(S, n) == UNION {[1..k -> S] : k \in 1..n}

\* A line of an output file.
HeaderLine ==
  [kind |-> "header", objId |-> 0, visit |-> 0, dmagColor |-> 0, magFilter |-> 0]
DataLine(objId, v, dmag, mag) ==
  [kind |-> "data", objId |-> objId, visit |-> v, dmagColor |-> dmag,
   magFilter |-> mag]
OldLine ==
  [kind |-> "old", objId |-> 0, visit |-> 0, dmagColor |-> 0, magFilter |-> 0]

\* ------------------------------------------------------------------ helpers
Abs(x) == IF x < 0 THEN 0 - x ELSE x

\* ceil(a / b) for b > 0.
CeilDiv(a, b) == (a + b - 1) \div b

SeqMin(s) == CHOOSE m \in {s[i] : i \in DOMAIN s} : \A j \in DOMAIN s : m <= s[j]

SeqMax(s) == CHOOSE m \in {s[i] : i \in DOMAIN s} : \A j \in DOMAIN s : m >= s[j]

\* np.where(mask)[0]: the indices at which mask holds, ascending.
Where(mask) ==
  LET Holds(i) == mask[i]
  IN SelectSeq([i \in DOMAIN mask |-> i], Holds)

Range(s) == {s[i] : i \in DOMAIN s}

VARIABLES
  pc,          \* position in runLinearObs
  err,         \* the exception that ended the run, or NoError
  files,       \* the file system: file name -> lines
  files0,      \* the file system when the LinearObs instance was created
  simdata,     \* the visit log fetched from opsim
  tstep, rFov, useCamera, outfileName,   \* arguments of runLinearObs
  ephTimes,    \* LinearObs.ephTimes
  objIdx,      \* number of objects the loop has taken from the catalog
  sso,         \* the single-object slice the loop is at
  svcOut,      \* what the propagation service produced: <<payload, status>>
  svcCalls,    \* calls made to the service by the last generateEphs
  warned,      \* whether the last generateEphs emitted a warning
  oorbEphs,    \* what _generateOorbEphs returned
  ephs,        \* what generateEphs returned
  interpfuncs, \* what interpolateEphs returned
  fpReply,     \* footprint service: queried visit -> whether a chip was found
  idxObs,      \* what ssoInFov returned
  outfile,     \* LinearObs.outfile: the open file's name, or Unset
  wroteHeader, \* LinearObs.wroteHeader
  lsstSet,     \* whether LinearObs.lsst exists
  colors,      \* LinearObs.colors: whether it exists, and sedname -> colour table
  nLoads,      \* sedname -> number of times its spectrum was read
  dmagColorDict, \* what the last _calcColors returned
  sedArg,      \* the sedname of the last _calcColors call
  colorCalls,  \* number of _calcColors calls made on the instance directly
  nWarnings,   \* warnings emitted so far
  nMatched,    \* visits matched (len(idxObs)) over all writeObs calls so far
  nMatchedOk,  \* the same over the writeObs calls that returned normally
  nSvcCalls,   \* calls made to the propagation service so far
  byObj,       \* the byObject argument of a direct _convertOorbEphs call
  args,        \* generateCoefficients: the parsed command line
  epoch,       \* generateCoefficients: the first epoch of the orbit file
  tStart, tSpan, tEnd,   \* generateCoefficients: its variables of these names
  timespans,   \* generateCoefficients: the chunk starts
  chunks       \* generateCoefficients: the chunks worked on, <<t, t + tSpan>>

runVars == <<simdata, tstep, rFov, useCamera, outfileName>>
ephVars == <<svcOut, svcCalls, warned, oorbEphs, ephs>>
outVars == <<files, outfile, wroteHeader>>
colorVars == <<lsstSet, colors, nLoads, dmagColorDict, sedArg, colorCalls>>
drvVars == <<args, epoch, tStart, tSpan, tEnd, timespans, chunks>>
otherVars == <<nSvcCalls, byObj, drvVars>>

vars == <<pc, err, files, files0, simdata, tstep, rFov, useCamera, outfileName,
          ephTimes, objIdx, sso, svcOut, svcCalls, warned, oorbEphs, ephs,
          interpfuncs, fpReply, idxObs, outfile, wroteHeader, lsstSet, colors,
          nLoads, dmagColorDict, sedArg, colorCalls, nWarnings, nMatched,
          nMatchedOk, nSvcCalls, byObj, args, epoch, tStart, tSpan, tEnd,
          timespans, chunks>>

\* --------------------------------------------------------------- time grid
\* len(np.arange(start, stop, step)) with stop given doubled (stop2 = 2*stop):
\* ceil((stop - start)/step), or nothing when that is not positive.
ArangeLen(start, stop2, step) ==
  LET n == IF step > 0 THEN CeilDiv(stop2 - 2*start, 2*step)
                       ELSE CeilDiv(2*start - stop2, 0 - 2*step)
  IN IF n > 0 THEN n ELSE 0

\* An arange that starts one step late.
ArangeFromStep(start, stop2, step) ==
  [i \in 1..ArangeLen(start, stop2, step) |-> start + i*step]

\* np.arange(start, stop, step) for step # 0: start + i*step.
Arange(start, stop2, step) ==
  [i \in 1..ArangeLen(start, stop2, step) |-> start + (i - 1)*step]

\* A grid built without padding the end of the window (line 51 dropped).
TimesRangeOutcomesUnpadded(timeStep, timeStart, timeEnd) ==
  LET start == timeStart - timeStep
      stop2 == 2*timeEnd + timeStep
  IN IF timeStep = 0
       THEN IF stop2 = 2*start THEN {<<"error">>, <<"ok", <<>>>>}
                               ELSE {<<"error">>}
       ELSE {<<"ok", Arange(start, stop2, timeStep)>>}

\* What np.arange(timeStart, timeEnd + timeStep/2.0, timeStep) can do after the
\* padding of lines 50-52: a list of grids, or <<"error">>.  A zero step divides
\* by zero: the length is inf (ValueError) when the window is not empty, and
\* NaN when it is empty, whose conversion to a length is build dependent
\* (ValueError, or a negative length and so an empty grid).
TimesRangeOutcomes(timeStep, timeStart, timeEnd) ==
  LET start == timeStart - timeStep
      end == timeEnd + timeStep
      stop2 == 2*end + timeStep
  IN IF timeStep = 0
       THEN IF stop2 = 2*start THEN {<<"error">>, <<"ok", <<>>>>}
                               ELSE {<<"error">>}
       ELSE {<<"ok", Arange(start, stop2, timeStep)>>}

\* zip(times, repeat(self.timescaleNum, len(times)))
TagTimes(times) == [i \in DOMAIN times |-> <<times[i], TimescaleTAI>>]

\* ----------------------------------------------------- n-dimensional arrays
\* A numpy array of 2 or 3 axes: its shape and its elements by index tuple.
Idx2(shape) == (1..shape[1]) \X (1..shape[2])

Idx3(shape) == (1..shape[1]) \X (1..shape[2]) \X (1..shape[3])

\* np.swapaxes(a, 2, 0) of a 3-axis array.
SwapAxes20(a) ==
  LET sh == <<a.shape[3], a.shape[2], a.shape[1]>>
  IN [shape |-> sh, data |-> [ix \in Idx3(sh) |-> a.data[<<ix[3], ix[2], ix[1]>>]]]

\* np.swapaxes(a, 2, 1) of a 3-axis array.
SwapAxes21(a) ==
  LET sh == <<a.shape[1], a.shape[3], a.shape[2]>>
  IN [shape |-> sh, data |-> [ix \in Idx3(sh) |-> a.data[<<ix[1], ix[3], ix[2]>>]]]

\* np.swapaxes(a, 1, 0) of a 2-axis array.
SwapAxes10(a) ==
  LET sh == <<a.shape[2], a.shape[1]>>
  IN [shape |-> sh, data |-> [ix \in Idx2(sh) |-> a.data[<<ix[2], ix[1]>>]]]

\* a[k] of a 3-axis array, k counted from 0 as in the source.
Sub(a, k) ==
  LET sh == <<a.shape[2], a.shape[3]>>
  IN [shape |-> sh, data |-> [ix \in Idx2(sh) |-> a.data[<<k + 1, ix[1], ix[2]>>]]]

\* a[i] of a 2-axis array, i counted from 0: a sequence.
Row(a, i) == [j \in 1..a.shape[2] |-> a.data[<<i + 1, j>>]]

\* np.sqrt on the values the model uses (exact on perfect squares).
Sqrt(n) == CHOOSE r \in 0..n : r*r <= n /\ n < (r + 1)*(r + 1)

\* ------------------------------------------------------------- ephemerides
\* The propagation service (pyoorb.oorb_ephemeris): for each orbit and each
\* requested date the ten fields of _convertOorbEphs' docstring, and a status.
\* The objects it returns move linearly in RA: track = <<RA at the first date,
\* RA rate per day>>.  The visits of a run point at RA 35.
Tracks == {<<35, 0>>, <<35, 21>>}

OorbRow(track, times, k) ==
  <<1, track[1] + track[2]*(times[k][1] - times[1][1]), 0, 18, times[k][1],
    times[k][2], track[2], 0, 0, 0>>

OorbPayload(track, times) ==
  LET sh == <<1, Len(times), 10>>
  IN [shape |-> sh,
      data |-> [ix \in Idx3(sh) |-> OorbRow(track, times, ix[2])[ix[3]]]]

\* How the service behaves for one object: the track it computes and the
\* status of its first answer (a repeated call succeeds).
OorbBehaviours == [track : Tracks, status : ErrCodes]

\* oo.pyoorb.oorb_ephemeris, call number n: <<payload, status>>.
OorbEphemeris(svc, times, n) ==
  <<OorbPayload(svc.track, times), IF n = 1 THEN svc.status ELSE 0>>

\* A generator that asks the service again after a non-zero status.
GenerateOorbEphsRetry(svc, times) ==
  LET first == OorbEphemeris(svc, times, 1)
      out == IF first[2] # 0 THEN OorbEphemeris(svc, times, 2) ELSE first
  IN [ret |-> out[1], warned |-> first[2] # 0, raised |-> FALSE,
      calls |-> IF first[2] # 0 THEN 2 ELSE 1, out |-> first]

\* A generator that asks the service date by date.
GenerateOorbEphsPerDate(svc, times) ==
  LET out == OorbEphemeris(svc, times, 1)
  IN [ret |-> out[1], warned |-> out[2] # 0, raised |-> FALSE,
      calls |-> Len(times), out |-> out]

\* PyOrbEphemerides._generateOorbEphs: what it returns, whether it warned,
\* whether it raised, the calls it made and the last answer of the service.
GenerateOorbEphs(svc, times) ==
  LET out == OorbEphemeris(svc, times, 1)
  IN [ret |-> out[1], warned |-> out[2] # 0, raised |-> FALSE, calls |-> 1,
      out |-> out]

\* A _convertOorbEphs that leaves velocity in the time-major layout when
\* grouping by object.
ConvertOorbEphsUnswapped(oorb, byObject) ==
  LET e0 == SwapAxes20(oorb)
      r6 == Sub(e0, 6)
      r7 == Sub(e0, 7)
      v0 == [shape |-> r6.shape,
             data |-> [ix \in Idx2(r6.shape) |->
                         Sqrt(r6.data[ix] * r6.data[ix] + r7.data[ix] * r7.data[ix])]]
      e1 == IF byObject THEN SwapAxes21(e0) ELSE e0
  IN [delta |-> Sub(e1, 0), ra |-> Sub(e1, 1), dec |-> Sub(e1, 2),
      magV |-> Sub(e1, 3), time |-> Sub(e1, 4), dradt |-> Sub(e1, 6),
      ddecdt |-> Sub(e1, 7), phase |-> Sub(e1, 8), solarelon |-> Sub(e1, 9),
      velocity |-> v0]

\* PyOrbEphemerides._convertOorbEphs.
ConvertOorbEphs(oorb, byObject) ==
  LET e0 == SwapAxes20(oorb)
      r6 == Sub(e0, 6)
      r7 == Sub(e0, 7)
      v0 == [shape |-> r6.shape,
             data |-> [ix \in Idx2(r6.shape) |->
                         Sqrt(r6.data[ix] * r6.data[ix] + r7.data[ix] * r7.data[ix])]]
      e1 == IF byObject THEN SwapAxes21(e0) ELSE e0
      v1 == IF byObject THEN SwapAxes10(v0) ELSE v0
  IN [delta |-> Sub(e1, 0), ra |-> Sub(e1, 1), dec |-> Sub(e1, 2),
      magV |-> Sub(e1, 3), time |-> Sub(e1, 4), dradt |-> Sub(e1, 6),
      ddecdt |-> Sub(e1, 7), phase |-> Sub(e1, 8), solarelon |-> Sub(e1, 9),
      velocity |-> v1]

EphNames == {"delta", "ra", "dec", "magV", "time", "dradt", "ddecdt", "phase",
             "solarelon", "velocity"}

\* -------------------------------------------------------------- interpolation
\* scipy's interp1d(kind='linear') refuses fewer than two samples.
InterpolateFails(e, i) == Len(Row(e.time, i)) < 2

\* LinearObs.interpolateEphs: one interpolant (its samples) per quantity
\* other than time.
InterpolateEphs(e, i) ==
  [n \in EphNames \ {"time"} |-> [x |-> Row(e.time, i), y |-> Row(e[n], i)]]

\* interp1d's bounds check (bounds_error): x_new < x[0] or x_new > x[-1].
OutOfDomain(f, t) == t < f.x[1] \/ t > f.x[Len(f.x)]

\* interp1d evaluation inside the domain, samples ascending: searchsorted,
\* clipped to 1..len-1, then the line through the two neighbours.
InterpEval(f, t) ==
  LET above == {k \in 2..Len(f.x) : f.x[k] >= t}
      hi == IF above = {} THEN Len(f.x)
            ELSE CHOOSE k \in above : \A j \in above : k <= j
      lo == hi - 1
  IN f.y[lo] + ((f.y[hi] - f.y[lo]) * (t - f.x[lo])) \div (f.x[hi] - f.x[lo])

\* ------------------------------------------------------------ field of view
\* np.degrees on the stored pointing.
Degrees(x) == DegPerRad * x

\* lsst.sims.utils.angularSeparation between points of the equator or of one
\* meridian.
AngularSeparation(ra1, dec1, ra2, dec2) ==
  IF ra1 = ra2 THEN Abs(dec1 - dec2) ELSE Abs(ra1 - ra2)

\* Lines 95-98: the separation of the object from each visit's pointing.
Sep(funcs, sim, i) ==
  AngularSeparation(InterpEval(funcs.ra, sim[i].expMJD),
                    InterpEval(funcs.dec, sim[i].expMJD),
                    Degrees(sim[i].fieldRA), Degrees(sim[i].fieldDec))

\* A rough test that also takes the visits exactly at the radius.
RoughIdxInclusive(funcs, sim, radius) ==
  Where([i \in DOMAIN sim |-> Sep(funcs, sim, i) <= radius])

\* np.where(sep < radius)[0]
RoughIdx(funcs, sim, radius) ==
  Where([i \in DOMAIN sim |-> Sep(funcs, sim, i) < radius])

\* A precise test that consults the footprint for every visit.
CameraCandidatesAll(funcs, sim) == Where([i \in DOMAIN sim |-> TRUE])

\* Lines 104-105: the visits for which the camera footprint is consulted.
CameraCandidates(funcs, sim) == RoughIdx(funcs, sim, CameraFov)

\* Lines 103-121: the candidates for which chipNameFromRaDecLSST named a chip.
CameraIdx(cand, reply) ==
  LET OnChip(i) == reply[i]
  IN SelectSeq(cand, OnChip)

\* ------------------------------------------------------------------ colours
BandIndex(b) == CHOOSE k \in 0..6 : <<"V", "u", "g", "r", "i", "z", "y">>[k + 1] = b

\* Sed.calcMag of a spectrum (its content c) through a bandpass.
CalcMag(c, band) == 20 + c * BandIndex(band)

\* Lines 150-155: the colour table of a spectrum.
ColorTable(c) == [f \in Range(FilterList) |-> CalcMag(c, f) - CalcMag(c, "V")]

\* The environment a _calcColors call meets: the throughput curves (the
\* variable unset, a curve unreadable, or fine) and the spectrum file named
\* sedname (its content, or 0 when the file is missing).
ColorEnvs == [throughputs : Throughputs, sed : SedData \cup {0}]

\* A _calcColors that reads the spectrum on every call.
NeedsLoadAlways(cols, sedname) == TRUE

\* Whether _calcColors reads the spectrum of sedname (line 149).
NeedsLoad(cols, sedname) == sedname \notin DOMAIN cols

\* A _calcColors whose cache is not keyed by the spectrum: once a table is
\* in memory it is returned for every sedname.
CalcColorsUnkeyed(st, sedname, env) ==
  LET fail(l, e) == [lsstSet |-> l, colors |-> st.colors, nLoads |-> st.nLoads,
                     ret |-> <<>>, error |-> e]
      init == ~st.lsstSet
      cols == IF init THEN [set |-> TRUE, tab |-> <<>>] ELSE st.colors
  IN IF init /\ env.throughputs = "unset" THEN fail(FALSE, "RuntimeError")
     ELSE IF init /\ env.throughputs = "unreadable" THEN fail(TRUE, "IOError")
     ELSE IF ~cols.set THEN fail(TRUE, "AttributeError")
     ELSE IF DOMAIN cols.tab = {}
       THEN IF env.sed = 0
              THEN [lsstSet |-> TRUE, colors |-> cols, nLoads |-> st.nLoads,
                    ret |-> <<>>, error |-> "IOError"]
              ELSE [lsstSet |-> TRUE,
                    colors |-> [set |-> TRUE,
                                tab |-> [s \in {sedname} |-> ColorTable(env.sed)]],
                    nLoads |-> [st.nLoads EXCEPT ![sedname] = @ + 1],
                    ret |-> ColorTable(env.sed), error |-> NoError]
       ELSE [lsstSet |-> TRUE, colors |-> cols, nLoads |-> st.nLoads,
             ret |-> cols.tab[CHOOSE s \in DOMAIN cols.tab : TRUE],
             error |-> NoError]

\* LinearObs._calcColors on the instance state st = [lsstSet, colors, nLoads],
\* colors = [set |-> whether self.colors exists, tab |-> sedname -> table]:
\* the new instance state, the table returned (<<>> when none is) and the
\* exception raised.
CalcColors(st, sedname, env) ==
  LET fail(l, e) == [lsstSet |-> l, colors |-> st.colors, nLoads |-> st.nLoads,
                     ret |-> <<>>, error |-> e]
      init == ~st.lsstSet
      cols == IF init THEN [set |-> TRUE, tab |-> <<>>] ELSE st.colors
  IN IF init /\ env.throughputs = "unset" THEN fail(FALSE, "RuntimeError")
     ELSE IF init /\ env.throughputs = "unreadable" THEN fail(TRUE, "IOError")
     ELSE IF ~cols.set THEN fail(TRUE, "AttributeError")
     ELSE IF NeedsLoad(cols.tab, sedname)
       THEN IF env.sed = 0
              THEN [lsstSet |-> TRUE, colors |-> cols, nLoads |-> st.nLoads,
                    ret |-> <<>>, error |-> "IOError"]
              ELSE [lsstSet |-> TRUE,
                    colors |-> [set |-> TRUE,
                                tab |-> [s \in DOMAIN cols.tab \cup {sedname} |->
                                           IF s = sedname THEN ColorTable(env.sed)
                                           ELSE cols.tab[s]]],
                    nLoads |-> [st.nLoads EXCEPT ![sedname] = @ + 1],
                    ret |-> ColorTable(env.sed), error |-> NoError]
       ELSE [lsstSet |-> TRUE, colors |-> cols, nLoads |-> st.nLoads,
             ret |-> cols.tab[sedname], error |-> NoError]

\* ------------------------------------------------------------------- output
\* Line 182: nothing to write.
NothingToWrite(idx) == Len(idx) = 0

\* LinearObs._openOutput: open(outfileName, 'w') truncates the file.
OpenOutput(fs, name) == [fs EXCEPT ![name] = <<>>]

\* A lookup that reports no filter missing, so that the offset of a missing
\* filter stays the zero of line 201.
UnknownFiltersNone(sim, idx, table) == {}

\* Lines 203-206: the filters of the matched visits missing from the table.
UnknownFilters(sim, idx, table) ==
  {sim[idx[k]].filter : k \in DOMAIN idx} \ DOMAIN table

\* A writer that puts the header in front of the lines of every call.
HeaderLinesAlways(wrote) == <<HeaderLine>>

\* Lines 219-224: the header, when it was not written yet.
HeaderLines(wrote) == IF wrote THEN <<>> ELSE <<HeaderLine>>

\* Lines 190-197: the reference-band magnitude interpolated at the times of
\* the matched visits (ephs['magV']).
MagV(funcs, sim, idx) ==
  [k \in DOMAIN idx |-> InterpEval(funcs.magV, sim[idx[k]].expMJD)]

\* Lines 203-208, the loop over the filters: the matched visits in filter f
\* get the offset of f.
RECURSIVE SetColors(_, _, _, _, _)
SetColors(dmag, fs, sim, idx, table) ==
  IF fs = {} THEN dmag
  ELSE LET f == CHOOSE x \in fs : TRUE
           match == {k \in DOMAIN idx : sim[idx[k]].filter = f}
       IN SetColors([k \in DOMAIN dmag |-> IF k \in match THEN table[f] ELSE dmag[k]],
                    fs \ {f}, sim, idx, table)

\* An offset looked up by the row of the visit log instead of the matched
\* visit (simdata['filter'] without [idxObs]).
DmagColorByRow(sim, idx, table) ==
  [k \in DOMAIN idx |->
     IF sim[k].filter \in DOMAIN table THEN table[sim[k].filter] ELSE 0]

\* Lines 201-208: dmagColor, zero (line 201) until the loop reaches the
\* filter; the loop reaches only filters of the table (line 205).
DmagColor(sim, idx, table) ==
  SetColors([k \in DOMAIN idx |-> 0],
            {sim[idx[k]].filter : k \in DOMAIN idx} \cap DOMAIN table,
            sim, idx, table)

\* Line 209: magFilter = ephs['magV'] + dmagColor.
MagFilter(magV, dmagColor) == [k \in DOMAIN magV |-> magV[k] + dmagColor[k]]

\* Lines 227-235: one line per matched visit, in the order of idxObs.
DataLines(objId, idx, dmagColor, magFilter) ==
  [k \in DOMAIN idx |-> DataLine(objId, idx[k], dmagColor[k], magFilter[k])]

\* ------------------------------------------------------------------ actions
NoArray == [shape |-> <<0, 0, 0>>, data |-> <<>>]

NoSso == [objId |-> 0, sed_filename |-> "C.dat"]

\* Every output file holds a line left by an earlier invocation; nothing is
\* open.
FreshOutput ==
  /\ files = [n \in FileNames |-> <<OldLine>>]
  /\ files0 = files
  /\ outfile = Unset
  /\ wroteHeader = FALSE
  /\ nMatched = 0
  /\ nMatchedOk = 0

\* No bandpass and no colour table is loaded.
FreshColors ==
  /\ lsstSet = FALSE
  /\ colors = [set |-> FALSE, tab |-> <<>>]
  /\ nLoads = [s \in SedNames |-> 0]
  /\ dmagColorDict = <<>>
  /\ sedArg = "C.dat"
  /\ colorCalls = 0

\* The optional value of a command-line option or of a variable not yet
\* bound: none, or <<v>>.
None == <<>>

Some(v) == <<v>>

\* generateCoefficients is not running.
NoDriver ==
  /\ args = [tStart |-> None, tSpan |-> None, tEnd |-> None]
  /\ epoch = 0
  /\ tStart = None
  /\ tSpan = None
  /\ tEnd = None
  /\ timespans = <<>>
  /\ chunks = <<>>

\* Nothing outside the LinearObs instance has happened.
NoOthers ==
  /\ nSvcCalls = 0
  /\ byObj = TRUE
  /\ NoDriver

\* No ephemeris was generated.
NoEphs ==
  /\ svcOut = <<NoArray, 0>>
  /\ svcCalls = 0
  /\ warned = FALSE
  /\ nWarnings = 0
  /\ oorbEphs = NoArray
  /\ ephs = <<>>

DefaultArgs ==
  /\ tstep = 1
  /\ rFov = RFovDefault
  /\ useCamera = TRUE
  /\ outfileName = "out.txt"

Init ==
  /\ pc = "idle"
  /\ err = NoError
  /\ simdata = <<>>
  /\ DefaultArgs
  /\ ephTimes = <<>>
  /\ objIdx = 0
  /\ sso = NoSso
  /\ NoEphs
  /\ interpfuncs = <<>>
  /\ fpReply = <<>>
  /\ idxObs = <<>>
  /\ FreshOutput
  /\ FreshColors
  /\ NoOthers

\* The exception e ends the run.
Raise(e) ==
  /\ pc' = "error"
  /\ err' = e

Visit(t, ra, f) == [expMJD |-> t, fieldRA |-> ra, fieldDec |-> 0, filter |-> f]

\* The visit logs a run is given: visits at the pointing RA 35, in a filter of
\* the colour tables ("r") or not ("w").
RunVisits == {Visit(t, 5, "r") : t \in VisitTimes} \cup {Visit(MaxTime, 5, "w")}

RunLogs == {<<v>> : v \in RunVisits} \cup {<<v, w>> : v, w \in RunVisits}

\* The catalog of a run: object i of the orbit file and its spectrum.
CatalogSso(i) ==
  [objId |-> i, sed_filename |-> IF i = 2 THEN "S.dat" ELSE "C.dat"]

\* The content of the spectrum files during a run.
SedContent(sedname) == IF sedname = "C.dat" THEN 1 ELSE 2

\* The environment the _calcColors call of a run meets.
RunColorEnvs(sedname) ==
  [throughputs : Throughputs, sed : {SedContent(sedname), 0}]

\* runLinearObs, lines 240-271: the arguments, the LinearObs instance and the
\* visits fetched from opsim.
StartRun ==
  /\ pc = "idle"
  /\ \E log \in RunLogs, step \in TimeSteps, cam \in BOOLEAN :
       /\ simdata' = log
       /\ tstep' = step
       /\ useCamera' = cam
  /\ pc' = "setTimes"
  /\ UNCHANGED otherVars
  /\ UNCHANGED <<err, files, files0, rFov, outfileName, ephTimes, objIdx, sso,
                 ephVars, interpfuncs, fpReply, idxObs, outfile, wroteHeader,
                 colorVars, nMatched, nMatchedOk,
                 nWarnings>>

\* runLinearObs, line 273: LinearObs.setTimesRange on the span of the visits.
SetTimesRange ==
  /\ pc = "setTimes"
  /\ LET mjd == [i \in DOMAIN simdata |-> simdata[i].expMJD]
     IN \E out \in TimesRangeOutcomes(tstep, SeqMin(mjd), SeqMax(mjd)) :
          IF out[1] = "error"
            THEN Raise("ValueError") /\ UNCHANGED ephTimes
            ELSE /\ ephTimes' = TagTimes(out[2])
                 /\ pc' = "loop"
                 /\ UNCHANGED err
  /\ UNCHANGED otherVars
  /\ UNCHANGED <<files, files0, runVars, objIdx, sso, ephVars, interpfuncs,
                 fpReply, idxObs, outfile, wroteHeader, colorVars, nMatched,
                 nMatchedOk, nWarnings>>

\* runLinearObs, lines 277-279 and 285: the catalog yields its next object as
\* a single-object slice, or is exhausted.  The loop body rebinds ephs,
\* interpfuncs and idxObs before it reads them, so the values of the previous
\* iteration are dropped here.
NextSso ==
  /\ pc = "loop"
  /\ \/ /\ objIdx < MaxObjs
        /\ sso' = CatalogSso(objIdx + 1)
        /\ objIdx' = objIdx + 1
        /\ pc' = "gen"
        /\ svcOut' = <<NoArray, 0>>
        /\ svcCalls' = 0
        /\ warned' = FALSE
        /\ oorbEphs' = NoArray
        /\ ephs' = <<>>
        /\ interpfuncs' = <<>>
        /\ fpReply' = <<>>
        /\ idxObs' = <<>>
     \/ /\ objIdx >= 1
        /\ pc' = "done"
        /\ UNCHANGED <<objIdx, sso, ephVars, interpfuncs, fpReply, idxObs>>
  /\ UNCHANGED otherVars
  /\ UNCHANGED <<err, files, files0, runVars, ephTimes, outfile, wroteHeader,
                 colorVars, nMatched, nMatchedOk,
                 nWarnings>>

\* LinearObs.generateEphs: setOrbits, one propagation, the conversion.
GenerateEphs ==
  /\ pc = "gen"
  /\ \E svc \in OorbBehaviours :
       LET g == GenerateOorbEphs(svc, ephTimes)
       IN /\ svcOut' = g.out
          /\ svcCalls' = g.calls
          /\ nSvcCalls' = nSvcCalls + g.calls
          /\ warned' = g.warned
          /\ nWarnings' = nWarnings + (IF g.warned THEN 1 ELSE 0)
          /\ IF g.raised
               THEN Raise("OorbError") /\ UNCHANGED <<oorbEphs, ephs>>
               ELSE /\ oorbEphs' = g.ret
                    /\ ephs' = ConvertOorbEphs(g.ret, TRUE)
                    /\ pc' = "interp"
                    /\ UNCHANGED err
  /\ UNCHANGED <<byObj, drvVars>>
  /\ UNCHANGED <<files, files0, runVars, ephTimes, objIdx, sso, interpfuncs,
                 fpReply, idxObs, outfile, wroteHeader, colorVars, nMatched,
                 nMatchedOk>>

\* LinearObs.interpolateEphs for the object of the slice (i = 0).
Interpolate ==
  /\ pc = "interp"
  /\ IF InterpolateFails(ephs, 0)
       THEN Raise("ValueError") /\ UNCHANGED interpfuncs
       ELSE /\ interpfuncs' = InterpolateEphs(ephs, 0)
            /\ pc' = "fov"
            /\ UNCHANGED err
  /\ UNCHANGED otherVars
  /\ UNCHANGED <<files, files0, runVars, ephTimes, objIdx, sso, ephVars,
                 fpReply, idxObs, outfile, wroteHeader, colorVars, nMatched,
                 nMatchedOk, nWarnings>>

\* LinearObs.ssoInFov.
SsoInFov ==
  /\ pc = "fov"
  /\ IF \E i \in DOMAIN simdata : OutOfDomain(interpfuncs.ra, simdata[i].expMJD)
       THEN Raise("ValueError") /\ UNCHANGED <<fpReply, idxObs>>
       ELSE /\ IF ~useCamera
                 THEN /\ idxObs' = RoughIdx(interpfuncs, simdata, rFov)
                      /\ fpReply' = <<>>
                 ELSE LET cand == CameraCandidates(interpfuncs, simdata)
                      IN \E reply \in [Range(cand) -> BOOLEAN] :
                           /\ fpReply' = reply
                           /\ idxObs' = CameraIdx(cand, reply)
            /\ pc' = "write"
            /\ UNCHANGED err
  /\ UNCHANGED otherVars
  /\ UNCHANGED <<files, files0, runVars, ephTimes, objIdx, sso, ephVars,
                 interpfuncs, outfile, wroteHeader, colorVars, nMatched,
                 nMatchedOk, nWarnings>>

\* LinearObs.writeObs.
WriteObs ==
  /\ pc = "write"
  /\ nMatched' = nMatched + Len(idxObs)
  /\ IF NothingToWrite(idxObs)
       THEN /\ pc' = "loop"
            /\ nMatchedOk' = nMatchedOk
            /\ UNCHANGED <<err, outVars, colorVars>>
       ELSE \E env \in RunColorEnvs(sso.sed_filename) :
         LET open == outfile = Unset
             fs == IF open THEN OpenOutput(files, outfileName) ELSE files
             of == IF open THEN outfileName ELSE outfile
             wh == IF open THEN FALSE ELSE wroteHeader
             cc == CalcColors([lsstSet |-> lsstSet, colors |-> colors,
                               nLoads |-> nLoads], sso.sed_filename, env)
         IN /\ outfile' = of
            /\ IF \E k \in DOMAIN idxObs :
                    OutOfDomain(interpfuncs.ra, simdata[idxObs[k]].expMJD)
                 THEN /\ Raise("ValueError")
                      /\ files' = fs
                      /\ wroteHeader' = wh
                      /\ nMatchedOk' = nMatchedOk
                      /\ UNCHANGED colorVars
                 ELSE /\ sedArg' = sso.sed_filename
                      /\ UNCHANGED colorCalls
                      /\ lsstSet' = cc.lsstSet
                      /\ colors' = cc.colors
                      /\ nLoads' = cc.nLoads
                      /\ dmagColorDict' = cc.ret
                      /\ IF cc.error # NoError
                           THEN /\ Raise(cc.error)
                                /\ files' = fs
                                /\ wroteHeader' = wh
                                /\ nMatchedOk' = nMatchedOk
                           ELSE IF UnknownFilters(simdata, idxObs, cc.ret) # {}
                             THEN /\ Raise("UserWarning")
                                  /\ files' = fs
                                  /\ wroteHeader' = wh
                                  /\ nMatchedOk' = nMatchedOk
                             ELSE /\ files' = [fs EXCEPT ![of] =
                                         LET dmag == DmagColor(simdata, idxObs, cc.ret)
                                             mag == MagFilter(MagV(interpfuncs, simdata, idxObs), dmag)
                                         IN fs[of] \o HeaderLines(wh)
                                              \o DataLines(sso.objId, idxObs, dmag, mag)]
                                  /\ wroteHeader' = TRUE
                                  /\ nMatchedOk' = nMatchedOk + Len(idxObs)
                                  /\ pc' = "loop"
                                  /\ UNCHANGED err
  /\ UNCHANGED otherVars
  /\ UNCHANGED <<files0, runVars, ephTimes, objIdx, sso, ephVars, interpfuncs,
                 fpReply, idxObs, nWarnings>>

Next ==
  \/ StartRun
  \/ SetTimesRange
  \/ NextSso
  \/ GenerateEphs
  \/ Interpolate
  \/ SsoInFov
  \/ WriteObs

Spec == Init /\ [][Next]_vars

\* ------------------------------------------- setTimesRange called on its own
\* The visit logs whose span gives the window (timeStart, timeEnd).
GridLogs ==
  {<<Visit(a, 5, "r")>> : a \in VisitTimes}
    \cup {<<Visit(a, 5, "r"), Visit(b, 5, "r")>> : a, b \in VisitTimes}

\* A LinearObs instance about to build the grid of any window with any step.
InitGrid ==
  /\ pc = "setTimes"
  /\ err = NoError
  /\ simdata \in GridLogs
  /\ tstep \in TimeSteps
  /\ rFov = RFovDefault
  /\ useCamera = TRUE
  /\ outfileName = "out.txt"
  /\ ephTimes = <<>>
  /\ objIdx = 0
  /\ sso = NoSso
  /\ NoEphs
  /\ interpfuncs = <<>>
  /\ fpReply = <<>>
  /\ idxObs = <<>>
  /\ FreshOutput
  /\ FreshColors
  /\ NoOthers

NextGrid == SetTimesRange

SpecGrid == InitGrid /\ [][NextGrid]_vars

\* ------------------------------------------------ ssoInFov called on its own
\* The grid of the window (0, 1) with step 1.
FovTimes == TagTimes(Arange(0 - 1, 5, 1))

\* Objects at a boresight, just inside the camera radius, and moving.
FovTracks == {<<0, 0>>, <<41, 0>>, <<14, 21>>}

\* Visits inside the window and one after the end of the grid, pointing at
\* RA 0, 35 or 42.
FovVisits == {Visit(t, ra, "r") : t \in {0, 1, 3}, ra \in {0, 5, 6}}

FovLogs == SeqsUpTo(FovVisits, MaxVisits)

\* The interpolants of one object and a visit log, about to be matched with
\* any radius and either test.
InitFov ==
  /\ pc = "fov"
  /\ err = NoError
  /\ simdata \in FovLogs
  /\ tstep = 1
  /\ rFov \in RFovs
  /\ useCamera \in BOOLEAN
  /\ outfileName = "out.txt"
  /\ ephTimes = FovTimes
  /\ objIdx = 1
  /\ sso = CatalogSso(1)
  /\ svcOut = <<NoArray, 0>>
  /\ svcCalls = 0
  /\ warned = FALSE
  /\ nWarnings = 0
  /\ oorbEphs = NoArray
  /\ ephs = <<>>
  /\ interpfuncs \in
       {InterpolateEphs(ConvertOorbEphs(OorbPayload(tr, FovTimes), TRUE), 0) :
          tr \in FovTracks}
  /\ fpReply = <<>>
  /\ idxObs = <<>>
  /\ FreshOutput
  /\ FreshColors
  /\ NoOthers

NextFov == SsoInFov

SpecFov == InitFov /\ [][NextFov]_vars

\* --------------------------------------------- _calcColors called on its own
\* One more call of _calcColors on the instance, for any spectrum and in any
\* environment; an exception goes to the caller, who may call again.
CalcColorsCall ==
  /\ pc = "colors"
  /\ colorCalls < MaxCalls
  /\ \E sedname \in SedNames, env \in ColorEnvs :
       LET cc == CalcColors([lsstSet |-> lsstSet, colors |-> colors,
                             nLoads |-> nLoads], sedname, env)
       IN /\ sedArg' = sedname
          /\ lsstSet' = cc.lsstSet
          /\ colors' = cc.colors
          /\ nLoads' = cc.nLoads
          /\ dmagColorDict' = cc.ret
          /\ err' = cc.error
  /\ colorCalls' = colorCalls + 1
  /\ UNCHANGED otherVars
  /\ UNCHANGED <<pc, files, files0, runVars, ephTimes, objIdx, sso,
                 ephVars, interpfuncs, fpReply, idxObs, outfile, wroteHeader,
                 nWarnings, nMatched, nMatchedOk>>

\* A new LinearObs instance.
InitColors ==
  /\ pc = "colors"
  /\ err = NoError
  /\ simdata = <<>>
  /\ DefaultArgs
  /\ ephTimes = <<>>
  /\ objIdx = 0
  /\ sso = NoSso
  /\ NoEphs
  /\ interpfuncs = <<>>
  /\ fpReply = <<>>
  /\ idxObs = <<>>
  /\ FreshOutput
  /\ FreshColors
  /\ NoOthers

NextColors == CalcColorsCall

SpecColors == InitColors /\ [][NextColors]_vars

\* ------------------------------------------------ writeObs called on its own
\* The visit log of the calls: a visit in a filter of the colour tables, one
\* in another filter, and one after the end of the grid.
WriteLog == <<Visit(0, 0, "r"), Visit(1, 0, "w"), Visit(3, 0, "r")>>

\* The index arrays a caller can pass: any visits of the log, ascending.
WriteIdxs == {Where(mask) : mask \in [DOMAIN WriteLog -> BOOLEAN]}

\* A caller passes writeObs the next object and any matches; an exception of
\* the previous call went to the caller, who carries on with the instance.
CallWriteObs ==
  /\ pc \in {"loop", "error"}
  /\ objIdx < MaxCalls
  /\ objIdx' = objIdx + 1
  /\ sso' = CatalogSso(objIdx + 1)
  /\ idxObs' \in WriteIdxs
  /\ pc' = "write"
  /\ err' = NoError
  /\ UNCHANGED otherVars
  /\ UNCHANGED <<files, files0, runVars, ephTimes, ephVars, interpfuncs,
                 fpReply, outfile, wroteHeader, colorVars, nMatched,
                 nMatchedOk, nWarnings>>

\* A new LinearObs instance and the interpolants of an object at RA 0.
InitWrite ==
  /\ pc = "loop"
  /\ err = NoError
  /\ simdata = WriteLog
  /\ DefaultArgs
  /\ ephTimes = FovTimes
  /\ objIdx = 0
  /\ sso = NoSso
  /\ NoEphs
  /\ interpfuncs =
       InterpolateEphs(ConvertOorbEphs(OorbPayload(<<0, 0>>, FovTimes), TRUE), 0)
  /\ fpReply = <<>>
  /\ idxObs = <<>>
  /\ FreshOutput
  /\ FreshColors
  /\ NoOthers

NextWrite ==
  \/ CallWriteObs
  \/ WriteObs

SpecWrite == InitWrite /\ [][NextWrite]_vars

\* --------------------------------------------------- properties of the output
\* The lines of the file the run was told to write.
Output == files[outfileName]

\* A header followed by n data lines and nothing else.
HeaderThenData(out, n) ==
  /\ Len(out) = 1 + n
  /\ out[1] = HeaderLine
  /\ \A k \in 2..Len(out) : out[k].kind = "data"

\* C1 as stated: the output is untouched while no writeObs call had a match,
\* and afterwards is one header, first, followed only by data lines, as many
\* as the visits matched over all calls.
C1_HeaderAndAllMatches ==
  /\ nMatched = 0 => files = files0
  /\ nMatched > 0 => HeaderThenData(Output, nMatched)

\* C1, amended: the output is untouched while no writeObs call had a match;
\* it is opened and empty, without header, when every call that had a match
\* raised; otherwise it is one header, first, followed only by data lines, as
\* many as the visits matched over the calls that returned normally.  So a
\* call without matches, and a call that raises, writes no line.
C1_HeaderAndWrittenMatches ==
  /\ nMatched = 0 => files = files0 /\ outfile = Unset /\ ~wroteHeader
  /\ (nMatched > 0 /\ nMatchedOk = 0) => Output = <<>> /\ ~wroteHeader
  /\ nMatchedOk > 0 => HeaderThenData(Output, nMatchedOk) /\ wroteHeader
  /\ \A n \in FileNames \ {outfileName} : files[n] = files0[n]

\* After a call that raised, the matches of two later calls were written.
C1_TwoCallsWrittenAfterRaise ==
  /\ pc = "loop"
  /\ nMatched > nMatchedOk
  /\ {Output[k].objId : k \in 2..Len(Output)} = {2, 3}

\* C2 as stated: when a run has finished, the file named outfileName holds
\* only lines of that run, none of an earlier one.
C2_RunOverwritesOutput ==
  pc = "done" => \A k \in DOMAIN Output : Output[k].kind # "old"

\* C4: a writeObs call with a matched visit whose filter is in no colour
\* table raises, and adds neither header nor data line to any file: every
\* file is as before the call, or was opened by it and is empty.
C4_UnknownFilterRaises ==
  [][(pc = "write" /\ \E k \in DOMAIN idxObs :
                        simdata[idxObs[k]].filter \notin Range(FilterList))
       => /\ pc' = "error"
          /\ err' # NoError
          /\ \A n \in FileNames : files'[n] = files[n] \/ files'[n] = <<>>
          /\ wroteHeader' = wroteHeader \/ ~wroteHeader']_vars

\* The second object of a run met an unknown filter (the colour table was
\* computed and lacks it) after the first object was written.
C4_UnknownFilterAfterWrite ==
  /\ pc = "error"
  /\ err = "UserWarning"
  /\ objIdx = 2
  /\ HeaderThenData(Output, nMatchedOk)
  /\ nMatched > nMatchedOk

\* ----------------------------------------------- properties of the time grid
\* C6: in a run with a positive step, once the grid is built every visit
\* time of the log lies between the first and the last grid time, the
\* interpolants span exactly the grid, and no step of the run ends with the
\* out-of-domain error of an interpolant.
C6_VisitsInsideGrid ==
  tstep > 0 =>
    /\ pc \in {"loop", "gen", "interp", "fov", "write", "done"} =>
         /\ Len(ephTimes) >= 2
         /\ \A i \in DOMAIN simdata :
              /\ ephTimes[1][1] <= simdata[i].expMJD
              /\ simdata[i].expMJD <= ephTimes[Len(ephTimes)][1]
    /\ pc \in {"fov", "write"} =>
         interpfuncs.ra.x = [k \in DOMAIN ephTimes |-> ephTimes[k][1]]
    /\ ~(pc = "error" /\ err = "ValueError")

\* Matches of a run whose step (2) does not divide the span of its visits (1)
\* are about to be written.
C6_StepNotDividingSpan ==
  /\ pc = "write"
  /\ tstep = 2
  /\ \E i, j \in DOMAIN simdata : simdata[j].expMJD = simdata[i].expMJD + 1
  /\ Len(idxObs) = 2

\* The window setTimesRange was given.
TimeStart == SeqMin([i \in DOMAIN simdata |-> simdata[i].expMJD])

TimeEnd == SeqMax([i \in DOMAIN simdata |-> simdata[i].expMJD])

\* The times of the grid.
GridTimes == [k \in DOMAIN ephTimes |-> ephTimes[k][1]]

\* The grid starts one step before the window and ascends by the step.
AscendingFromPaddedStart ==
  /\ Len(GridTimes) >= 1
  /\ GridTimes[1] = TimeStart - tstep
  /\ \A k \in 2..Len(GridTimes) : GridTimes[k] = GridTimes[k - 1] + tstep

\* C5 as stated: for a positive step the grid built is strictly increasing
\* with spacing step, starts at start - step and ends at end + step.
C5_GridEndsAtPaddedEnd ==
  (pc = "loop" /\ tstep > 0) =>
    /\ AscendingFromPaddedStart
    /\ GridTimes[Len(GridTimes)] = TimeEnd + tstep

\* C5, amended: for a positive step the grid built is strictly increasing
\* with spacing step and starts at start - step; its last time lies at or
\* after end + step/2 and before end + 3*step/2, and is end + step whenever
\* the step divides end - start.
C5_GridEndsNearPaddedEnd ==
  (pc = "loop" /\ tstep > 0) =>
    /\ AscendingFromPaddedStart
    /\ 2 * GridTimes[Len(GridTimes)] >= 2 * TimeEnd + tstep
    /\ 2 * GridTimes[Len(GridTimes)] < 2 * TimeEnd + 3 * tstep
    /\ (TimeEnd - TimeStart) % tstep = 0 =>
         GridTimes[Len(GridTimes)] = TimeEnd + tstep

\* The grid of a window of span 1 was built with step 2.
C5_StepNotDividingWindow ==
  /\ pc = "loop"
  /\ tstep = 2
  /\ TimeEnd - TimeStart = 1
  /\ Len(ephTimes) = 3

\* C7 as stated: with a step of zero or less, setTimesRange raises and leaves
\* no grid.
C7_NonPositiveStepRaises ==
  (tstep <= 0 /\ pc # "setTimes") => (pc = "error" /\ ephTimes = <<>>)

\* ------------------------------------------- properties of the ephemerides
\* C8: generating the ephemerides of an object calls the service once, does
\* not raise and hands on exactly the payload of the service, whatever the
\* status; a non-zero status adds one warning.  The run goes on with the
\* object.
C8_StatusOnlyWarns ==
  [][pc = "gen"
       => /\ pc' = "interp"
          /\ svcCalls' = 1
          /\ oorbEphs' = svcOut'[1]
          /\ nWarnings' = nWarnings + (IF svcOut'[2] # 0 THEN 1 ELSE 0)]_vars

\* The service failed for the first object, whose matches were written all
\* the same, and the second object is being written.
C8_NextObjectAfterWarning ==
  /\ pc = "write"
  /\ objIdx = 2
  /\ nWarnings = 1
  /\ svcOut[2] = 0
  /\ nMatchedOk > 0
  /\ Len(idxObs) > 0

\* --------------------------------------------- properties of the FOV tests
\* The separation of the object from the pointing of visit i, in the sky of
\* the model (everything on the equator).
SepAt(i) ==
  Abs(InterpEval(interpfuncs.ra, simdata[i].expMJD) - DegPerRad * simdata[i].fieldRA)

\* s lists exactly the members of S, ascending.
ListsAscending(s, S) ==
  /\ Range(s) = S
  /\ \A j, k \in DOMAIN s : j < k => s[j] < s[k]

\* C9: the rough test returns exactly the visits whose pointing is strictly
\* less than rFov from the object's interpolated position; so the visits at
\* whose boresight the object is are returned, the radius being positive.
C9_RoughTestStrictlyInside ==
  (pc = "write" /\ ~useCamera) =>
    /\ ListsAscending(idxObs, {i \in DOMAIN simdata : SepAt(i) < rFov})
    /\ \A i \in DOMAIN simdata : (SepAt(i) = 0 /\ rFov > 0) => i \in Range(idxObs)

\* The rough test took a visit at whose boresight the object is and left one
\* exactly rFov away.
C9_BoresightInRadiusOut ==
  /\ pc = "write"
  /\ ~useCamera
  /\ \E i \in DOMAIN simdata : SepAt(i) = 0 /\ i \in Range(idxObs)
  /\ \E i \in DOMAIN simdata : SepAt(i) = rFov /\ i \notin Range(idxObs)

\* C10: the precise test consults the footprint for exactly the visits
\* strictly inside the coarse radius (the camera radius), and returns exactly
\* those of them for which the footprint named a detector.
C10_PreciseOnlyOnCoarseSurvivors ==
  (pc = "write" /\ useCamera) =>
    LET coarse == {i \in DOMAIN simdata : SepAt(i) < CameraFov}
    IN /\ DOMAIN fpReply = coarse
       /\ ListsAscending(idxObs, {i \in coarse : fpReply[i]})
       /\ Range(idxObs) \subseteq coarse

\* The footprint named a detector for one visit inside the coarse radius,
\* which was returned, and none for another, which was left out.
C10_FootprintRejectsOne ==
  /\ pc = "write"
  /\ useCamera
  /\ \E i, j \in DOMAIN fpReply :
       /\ fpReply[i] /\ i \in Range(idxObs)
       /\ ~fpReply[j] /\ j \notin Range(idxObs)

\* ------------------------------------------ properties of the colour tables
\* C3: over the _calcColors calls on one instance a spectrum is read, and its
\* table computed, at most once; a call for a spectrum whose table is cached
\* returns that table without an error; and no call changes or drops a
\* cached table.
C3_ColoursComputedOnce ==
  /\ [](\A s \in SedNames : nLoads[s] <= 1)
  /\ [][/\ \A s \in DOMAIN colors.tab :
             /\ s \in DOMAIN colors'.tab
             /\ colors'.tab[s] = colors.tab[s]
             /\ nLoads'[s] = nLoads[s]
        /\ (colorCalls' # colorCalls /\ sedArg' \in DOMAIN colors.tab)
             => (err' = NoError /\ dmagColorDict' = colors.tab[sedArg'])]_vars

\* A third call returned the cached table of the first spectrum after a call
\* for another spectrum.
C3_CachedTableReturned ==
  /\ colorCalls = 3
  /\ DOMAIN colors.tab = {"C.dat", "S.dat"}
  /\ sedArg = "C.dat"
  /\ nLoads["C.dat"] = 1
  /\ err = NoError
  /\ dmagColorDict = colors.tab["C.dat"]

\* ------------------------------------ writeObs on visits of several filters
\* A visit log that mixes filters of the colour tables, out of order.
MagLog == <<Visit(0, 0, "r"), Visit(2, 0, "g"), Visit(1, 0, "r")>>

\* The answer of the service for an object at RA 0 that fades by two
\* magnitude units a day.
FadingPayload(times) ==
  LET sh == <<1, Len(times), 10>>
  IN [shape |-> sh,
      data |-> [ix \in Idx3(sh) |->
                  IF ix[3] = 4 THEN 18 + 2 * (ix[2] - 1)
                  ELSE OorbRow(<<0, 0>>, times, ix[2])[ix[3]]]]

\* A new LinearObs instance and the interpolants of the fading object.
InitMag ==
  /\ pc = "loop"
  /\ err = NoError
  /\ simdata = MagLog
  /\ DefaultArgs
  /\ ephTimes = FovTimes
  /\ objIdx = 0
  /\ sso = NoSso
  /\ NoEphs
  /\ interpfuncs =
       InterpolateEphs(ConvertOorbEphs(FadingPayload(FovTimes), TRUE), 0)
  /\ fpReply = <<>>
  /\ idxObs = <<>>
  /\ FreshOutput
  /\ FreshColors
  /\ NoOthers

NextMag ==
  \/ CallWriteObs
  \/ WriteObs

SpecMag == InitMag /\ [][NextMag]_vars

\* C11: on every data line, the filter-band magnitude is the reference-band
\* magnitude interpolated at the time of the line's visit plus the offset
\* that the colour table of the line's object has for the filter of that
\* visit; the offset written is that one.
C11_MagFilterOfOwnVisit ==
  \A k \in DOMAIN Output :
    Output[k].kind = "data" =>
      LET v == simdata[Output[k].visit]
          table == colors.tab[CatalogSso(Output[k].objId).sed_filename]
      IN /\ Output[k].dmagColor = table[v.filter]
         /\ Output[k].magFilter =
              InterpEval(interpfuncs.magV, v.expMJD) + table[v.filter]

\* The second and third visit of the log, of different filters, were
\* written for an object, and so were the three visits for another.
C11_MixedFiltersWritten ==
  /\ pc = "loop"
  /\ \E o1, o2 \in 1..MaxCalls :
       /\ o1 # o2
       /\ {Output[k].visit : k \in {j \in DOMAIN Output : Output[j].objId = o1}} = {2, 3}
       /\ {Output[k].visit : k \in {j \in DOMAIN Output : Output[j].objId = o2}} = {1, 2, 3}
       /\ CatalogSso(o1).sed_filename # CatalogSso(o2).sed_filename

\* ------------------------------------------ properties of the lines of a run
\* The time of the visit a line is about.
LineTime(line) == simdata[line.visit].expMJD

\* C12 as stated: in the output of a run the data lines of an object are
\* contiguous and in non-decreasing order of visit time.
C12_ContiguousAndTimeOrdered ==
  \A i, j \in DOMAIN Output :
    (i < j /\ Output[i].kind = "data" /\ Output[j].kind = "data"
       /\ Output[i].objId = Output[j].objId)
      => /\ \A k \in i..j : Output[k].objId = Output[i].objId
         /\ LineTime(Output[i]) <= LineTime(Output[j])

\* ------------------------------------------- properties of the service calls
\* C13 as stated: a run calls the propagation service once, however many
\* objects the catalog has.
C13_OneCallPerRun == nSvcCalls <= 1

\* C13, amended: each generateEphs makes one call to the service, for the
\* object of the slice and all times of the grid, so that a run has made as
\* many calls as it has generated objects.
C13_OneCallPerObject ==
  /\ nSvcCalls = IF pc = "gen" THEN objIdx - 1 ELSE objIdx
  /\ pc \in {"interp", "fov", "write"} =>
       /\ svcCalls = 1
       /\ svcOut[1].shape = <<1, Len(ephTimes), 10>>
       /\ \A k \in DOMAIN ephTimes : svcOut[1].data[<<1, k, 5>>] = ephTimes[k][1]

\* A run over two objects has ended.
C13_TwoObjectsTwoCalls ==
  /\ pc = "done"
  /\ objIdx = 2
  /\ nSvcCalls = 2

\* ------------------------------------------- properties of object isolation
\* The data lines of an object as its own inputs give them: the answer of
\* the service for it, the answers of the footprint for it, its spectrum,
\* and the arguments of the run.
OwnLines(objId, sedname, payload, reply, sim, cam, radius) ==
  LET f == InterpolateEphs(ConvertOorbEphs(payload, TRUE), 0)
      sep(i) == Abs(InterpEval(f.ra, sim[i].expMJD) - DegPerRad * sim[i].fieldRA)
      idx == Where([i \in DOMAIN sim |->
                      IF cam THEN sep(i) < CameraFov /\ reply[i]
                             ELSE sep(i) < radius])
      table == ColorTable(SedContent(sedname))
  IN [k \in DOMAIN idx |->
        LET v == sim[idx[k]]
        IN DataLine(objId, idx[k], table[v.filter],
                    InterpEval(f.magV, v.expMJD) + table[v.filter])]

\* The data lines of the objects in ids, in the order of the file.
LinesOf(out, ids) ==
  LET Theirs(line) == line.kind = "data" /\ line.objId \in ids
  IN SelectSeq(out, Theirs)

\* C14: a writeObs call of a run that returns leaves in the output, for its
\* object, exactly the data lines that the object's own inputs give, whatever
\* was processed before (whatever is cached, open or written), and leaves the
\* data lines of the other objects as they were.
C14_LinesFromOwnInputs ==
  [][(pc = "write" /\ pc' = "loop")
       => /\ LinesOf(files'[outfileName], {sso.objId})
               = OwnLines(sso.objId, sso.sed_filename, svcOut[1], fpReply,
                          simdata, useCamera, rFov)
          /\ LinesOf(files'[outfileName], (1..MaxObjs) \ {sso.objId})
               = LinesOf(Output, (1..MaxObjs) \ {sso.objId})]_vars

\* A run wrote lines for its first object, with one spectrum, and then for
\* its second, with another.
C14_SecondObjectAfterFirst ==
  /\ pc = "done"
  /\ LinesOf(Output, {1}) # <<>>
  /\ LinesOf(Output, {2}) # <<>>
  /\ DOMAIN colors.tab = {"C.dat", "S.dat"}

\* ------------------------------------------ _convertOorbEphs called on its own
\* The sky motion of an object at a date: <<dra/dt, ddec/dt>>, with a whole
\* number for norm.
Rates == {<<0, 0>>, <<3, 4>>, <<5, 12>>}

\* A raw array of the service for nO objects and nT dates: every field but
\* the two rates holds a value that names its object, date and field.
RawEphs(nO, nT, rates) ==
  LET sh == <<nO, nT, 10>>
  IN [shape |-> sh,
      data |-> [ix \in Idx3(sh) |->
                  IF ix[3] = 7 THEN rates[<<ix[1], ix[2]>>][1]
                  ELSE IF ix[3] = 8 THEN rates[<<ix[1], ix[2]>>][2]
                  ELSE 100 * ix[1] + 10 * ix[2] + (ix[3] - 1)]]

InitConvert ==
  /\ pc = "convert"
  /\ err = NoError
  /\ simdata = <<>>
  /\ DefaultArgs
  /\ ephTimes = <<>>
  /\ objIdx = 0
  /\ sso = NoSso
  /\ svcOut = <<NoArray, 0>>
  /\ svcCalls = 0
  /\ warned = FALSE
  /\ nWarnings = 0
  /\ \E nO \in 1..MaxRawObjs, nT \in 1..MaxRawTimes :
       \E rates \in [Idx2(<<nO, nT>>) -> Rates] :
         oorbEphs = RawEphs(nO, nT, rates)
  /\ ephs = <<>>
  /\ interpfuncs = <<>>
  /\ fpReply = <<>>
  /\ idxObs = <<>>
  /\ FreshOutput
  /\ FreshColors
  /\ nSvcCalls = 0
  /\ byObj \in BOOLEAN
  /\ NoDriver

\* ephs = self._convertOorbEphs(oorbEphs, byObject=byObject)
ConvertCall ==
  /\ pc = "convert"
  /\ ephs' = ConvertOorbEphs(oorbEphs, byObj)
  /\ pc' = "converted"
  /\ UNCHANGED <<err, files0, runVars, ephTimes, objIdx, sso, svcOut, svcCalls,
                 warned, oorbEphs, interpfuncs, fpReply, idxObs, outVars,
                 colorVars, nWarnings, nMatched, nMatchedOk, otherVars>>

NextConvert == ConvertCall

SpecConvert == InitConvert /\ [][NextConvert]_vars

\* The raw value of field k (counted from 0) of object o at date t.
Raw(o, t, k) == oorbEphs.data[<<o, t, k + 1>>]

\* The converted value of quantity q for object o at date t, in the layout
\* the grouping asks for.
Converted(q, o, t) ==
  IF byObj THEN ephs[q].data[<<o, t>>] ELSE ephs[q].data[<<t, o>>]

\* C15: the conversion returns the ten named quantities, each indexed
\* [object][date] when grouping by object and [date][object] otherwise; each
\* of the nine copied quantities is the raw value of its field for that
\* object and date (field 5 goes nowhere), and velocity is the norm of the
\* raw fields 6 and 7 of that object and date.
C15_LayoutAndVelocity ==
  pc = "converted" =>
    LET nO == oorbEphs.shape[1]
        nT == oorbEphs.shape[2]
        field == [delta |-> 0, ra |-> 1, dec |-> 2, magV |-> 3, time |-> 4,
                  dradt |-> 6, ddecdt |-> 7, phase |-> 8, solarelon |-> 9]
    IN /\ DOMAIN ephs = EphNames
       /\ \A q \in EphNames :
            ephs[q].shape = IF byObj THEN <<nO, nT>> ELSE <<nT, nO>>
       /\ \A o \in 1..nO, t \in 1..nT :
            /\ \A q \in DOMAIN field : Converted(q, o, t) = Raw(o, t, field[q])
            /\ Converted("velocity", o, t)
                 = Sqrt(Raw(o, t, 6) * Raw(o, t, 6) + Raw(o, t, 7) * Raw(o, t, 7))

\* Two objects at two dates were grouped by object, and the object-date
\* pairs <<1, 2>> and <<2, 1>> move at different speeds.
C15_GroupedByObjectDistinctSpeeds ==
  /\ pc = "converted"
  /\ byObj
  /\ oorbEphs.shape = <<2, 2, 10>>
  /\ ephs.velocity.data[<<1, 2>>] = 5
  /\ ephs.velocity.data[<<2, 1>>] = 13

\* ------------------------------------------------- generateCoefficients.py
\* The command line: --tStart, --tSpan and --tEnd, each given or not; the
\* first epoch of the orbit file.
StartArgs == {None, Some(0), Some(1)}

SpanArgs == {None} \cup {Some(v) : v \in 1..MaxSpan}

EndArgs == {None} \cup {Some(v) : v \in 0..(MaxSpan + 1)}

Epochs == {0, 1}

InitCoeff ==
  /\ pc = "args"
  /\ err = NoError
  /\ simdata = <<>>
  /\ DefaultArgs
  /\ ephTimes = <<>>
  /\ objIdx = 0
  /\ sso = NoSso
  /\ NoEphs
  /\ interpfuncs = <<>>
  /\ fpReply = <<>>
  /\ idxObs = <<>>
  /\ FreshOutput
  /\ FreshColors
  /\ nSvcCalls = 0
  /\ byObj = TRUE
  /\ args \in [tStart : StartArgs, tSpan : SpanArgs, tEnd : EndArgs]
  /\ epoch \in Epochs
  /\ tStart = None
  /\ tSpan = None
  /\ tEnd = None
  /\ timespans = <<>>
  /\ chunks = <<>>

linearVars == <<err, files0, runVars, ephTimes, objIdx, sso, ephVars,
                interpfuncs, fpReply, idxObs, outVars, colorVars, nWarnings,
                nMatched, nMatchedOk, nSvcCalls, byObj>>

\* "Check that basic information about tSpan or tEnd is available."
CheckSpanOrEnd ==
  /\ pc = "args"
  /\ pc' = IF args.tEnd = None /\ args.tSpan = None THEN "exit" ELSE "parse"
  /\ UNCHANGED <<linearVars, drvVars>>

\* "Parse start, end and timespan values": a name the branches do not
\* assign stays unbound (None).
ParseWindow ==
  /\ pc = "parse"
  /\ LET start == IF args.tStart = None THEN Some(epoch) ELSE args.tStart
     IN /\ tStart' = start
        /\ IF args.tSpan # None /\ args.tEnd # None
             THEN /\ tSpan' = args.tSpan
                  /\ tEnd' = args.tEnd
           ELSE IF args.tSpan # None /\ args.tEnd = None
             THEN /\ tSpan' = args.tSpan
                  /\ tEnd' = Some(start[1] + args.tSpan[1])
           ELSE IF args.tEnd = None /\ args.tEnd # None
             THEN /\ tEnd' = args.tEnd
                  /\ tSpan' = Some(args.tEnd[1] - start[1])
           ELSE UNCHANGED <<tSpan, tEnd>>
  /\ pc' = "span"
  /\ UNCHANGED <<linearVars, args, epoch, timespans, chunks>>

\* timespans = np.arange(tStart, tEnd, tSpan): reading an unbound name raises
\* NameError.
BuildTimespans ==
  /\ pc = "span"
  /\ IF tEnd = None \/ tSpan = None
       THEN /\ err' = "NameError"
            /\ pc' = "error"
            /\ UNCHANGED timespans
       ELSE /\ timespans' = Arange(tStart[1], 2 * tEnd[1], tSpan[1])
            /\ pc' = IF timespans' = <<>> THEN "done" ELSE "chunks"
            /\ UNCHANGED err
  /\ UNCHANGED <<files0, runVars, ephTimes, objIdx, sso, ephVars, interpfuncs,
                 fpReply, idxObs, outVars, colorVars, nWarnings, nMatched,
                 nMatchedOk, nSvcCalls, byObj, args, epoch, tStart, tSpan,
                 tEnd, chunks>>

\* One round of "for t in timespans": the coefficients of [t, t + tSpan) are
\* fitted and written.
ProcessChunk ==
  /\ pc = "chunks"
  /\ LET t == timespans[Len(chunks) + 1]
     IN chunks' = Append(chunks, <<t, t + tSpan[1]>>)
  /\ pc' = IF Len(chunks') = Len(timespans) THEN "done" ELSE "chunks"
  /\ UNCHANGED <<linearVars, args, epoch, tStart, tSpan, tEnd, timespans>>

NextCoeff == CheckSpanOrEnd \/ ParseWindow \/ BuildTimespans \/ ProcessChunk

SpecCoeff == InitCoeff /\ [][NextCoeff]_vars

\* C16: a command line that gives at least one of --tSpan and --tEnd reaches
\* the chunk loop, without an error, with tSpan and tEnd both defined; when
\* only --tSpan is given tEnd = tStart + tSpan, when only --tEnd is given
\* tSpan = tEnd - tStart, and in both cases the one chunk [tStart, tEnd) is
\* processed.
C16_MissingOneDerived ==
  LET onlySpan == args.tSpan # None /\ args.tEnd = None
      onlyEnd == args.tSpan = None /\ args.tEnd # None
  IN /\ pc # "error"
     /\ pc \in {"chunks", "done"} => tSpan # None /\ tEnd # None
     /\ (pc = "done" /\ onlySpan)
          => /\ tEnd = Some(tStart[1] + args.tSpan[1])
             /\ chunks = <<<<tStart[1], tEnd[1]>>>>
     /\ (pc = "done" /\ onlyEnd /\ args.tEnd[1] > tStart[1])
          => /\ tSpan = Some(args.tEnd[1] - tStart[1])
             /\ chunks = <<<<tStart[1], tEnd[1]>>>>
====
